---- MODULE Spec2Model ----
(***************************************************************************)
(* rockbench: the id space of package generator (doc_id, max_doc_id), the  *)
(* document and patch generators, and the tick-driven dispatch loops and   *)
(* the signal handler of main.                                            *)
(***************************************************************************)
EXTENDS Integers, Sequences, FiniteSets, TLC

(***************************************************************************)
(* Bounds of the model.                                                    *)
(***************************************************************************)
MaxNumDocs == 2
MaxMaxDocs == 1
MaxWps == 2
MaxBatch == 2
\* NUM_CLUSTERS when clustering is on
MaxClusters == 2
\* ticks stop arriving once this many batches have been issued
MaxBatches == MaxNumDocs + 1

\* package-level calls: documents generated per run, concurrent callers and
\* the calls each of them makes
MaxApiDocs == 4
NumCallers == 2
MaxCalls == 2
\* package-level GeneratePatches calls: the greatest bound seeded and the
\* greatest number of patches asked for
MaxLimit == 3
MaxCount == 3
\* timestamps are taken up to this far above each anchor
MaxOffset == 4
\* the patch stream on its own: templates per pass and mutations taken
MaxPass == 3
MaxEmitted == 2 * MaxPass + 1
\* latency samples recorded by one probe goroutine
MaxProbes == 2
\* wire calls made one after another
MaxSendCalls == 2

(***************************************************************************)
(* Program constants.                                                      *)
(***************************************************************************)
\* fmt.Sprintf("%024d", id)
DocIdWidth == 24
\* rand.Intn(100) < spec.UpdatePercentage
PercentRange == 100
\* signalChan := make(chan os.Signal, 1)
SignalChanCap == 1
\* patchChannel := make(chan map[string]interface{}, 1)
PatchChanCap == 1
\* rockset.go: timeMicro/1000000
Million == 1000000
\* rockset.go: (timeMicro%1000000)*1000
NanosPerMicro == 1000
\* 2^53 in base-10^6 limbs: below it every integer is a float64, the type
\* yc.(float64) asserts
TwoTo53 == <<9007, 199254, 740992>>

Modes == {"add", "patch", "add_then_patch", "mixed"}
IdModes == {"uuid", "sequential"}
Destinations == {"rockset", "null"}
Signals == {"SIGINT", "SIGTERM"}

VARIABLES
    cfg,          \* the environment main reads (lines 23-43, 83)
    pc,           \* position of the main goroutine
    proc,         \* "running", or how the process ended
    i,            \* unit index of the tick body's for loop
    docs_written, \* main.go: docs_written
    batches,      \* number of batches handed to a send task (go func)
    doc_id,       \* document.go: var doc_id
    max_doc_id,   \* document.go: var max_doc_id
    doc,          \* the _id of the document the last GenerateDoc call returned
    Cluster1,     \* the Cluster1 field of that document
    docs,         \* the batch under construction / last generated
    num_patch,    \* GeneratePatches: parameter num_patch
    limit,        \* genUniqueInRange: parameter limit
    ids_to_patch, \* genUniqueInRange: the set of ids drawn so far
    ids,          \* GeneratePatches: the ids returned and not yet ranged over
    patches,      \* GeneratePatches: the patches built so far
    received,     \* the mutations the current GeneratePatches call took from c
    patchChannel, \* the mutations buffered in patchChannel
    options,      \* the producer's shuffled options not yet sent
    producer,     \* the producer goroutine started ("off" before)
    tickPending,  \* t.C holds a tick (a Ticker's channel buffers one)
    doneClosed,   \* doneChan has been closed
    signalChan,   \* signals delivered and not yet received by signalHandler
    sigDone,      \* signalHandler: done
    callers,      \* concurrent callers of GenerateDoc (package API)
    sends,        \* the send tasks started so far (go func(i int) {...}(i))
    inflight,     \* the number of send tasks whose call has not returned
    sendErrors,   \* the number of send calls that returned an error (logged)
    tickLog,      \* the phase of every tick taken from t.C so far
    wire,         \* the destination call in progress and the store's answer
    result,       \* what the last destination call returned
    metrics,      \* what the metrics hooks have recorded
    submitted     \* the batches the send tasks have submitted, with the task

vars == <<cfg, pc, proc, i, docs_written, batches, doc_id, max_doc_id, doc, docs,
          Cluster1,
          num_patch, limit, ids_to_patch, ids, patches, received, patchChannel, options,
          producer, tickPending, doneClosed, signalChan, sigDone, callers, sends,
          inflight, sendErrors, tickLog, wire, result, metrics, submitted>>

genVars == <<doc_id, max_doc_id, doc, docs, Cluster1>>
patchVars == <<num_patch, limit, ids_to_patch, ids, patches, received>>
streamVars == <<patchChannel, options, producer>>
sigVars == <<signalChan, sigDone>>
taskVars == <<sends, inflight, sendErrors, tickLog>>
wireVars == <<wire, result, metrics, submitted>>

\* time.Time{}: January 1, year 1, 00:00:00 UTC, as (Unix seconds in two
\* base-10^6 limbs, nanoseconds)
ZeroTime == [unix |-> <<-62135, -596800>>, nsec |-> 0]

\* no destination call made yet, nothing returned, nothing recorded
NoWire == [dest |-> "", op |-> "", n |-> 0, resp |-> [kind |-> "", ts |-> <<>>]]
NoResult == [ret |-> "", time |-> ZeroTime]
NoMetrics ==
    [writesCompleted |-> 0, writesErrored |-> 0, patchesCompleted |-> 0,
     patchesErrored |-> 0, eventIngested |-> 0, e2eLatency |-> <<>>]

WireIdle ==
    wire = NoWire /\ result = NoResult /\ metrics = NoMetrics /\ submitted = {}

(***************************************************************************)
(* formatDocId: the decimal digits of id, left-padded with zeros to        *)
(* DocIdWidth characters (never truncated). A string is the sequence of    *)
(* its digits.                                                             *)
(***************************************************************************)
RECURSIVE Digits(_)
Digits(n) == IF n < 10 THEN <<n>> ELSE Digits(n \div 10) \o <<n % 10>>

PadZero(s, w) == IF Len(s) >= w THEN s ELSE [k \in 1..(w - Len(s)) |-> 0] \o s

\* a format one character short ("%023d")
formatDocId_Narrow(id) == PadZero(Digits(id), DocIdWidth - 1)

formatDocId(id) == PadZero(Digits(id), DocIdWidth)

\* the value of the "_id" key of a document: a formatted id, a uuid, or absent
SeqId(id) == [kind |-> "seq", text |-> formatDocId(id)]
UuidId == [kind |-> "uuid", text |-> <<>>]
NoId == [kind |-> "none", text |-> <<>>]

\* rand.Intn(100): the least and the greatest value and the two in the middle
IntnPercent == {0, PercentRange \div 2 - 1, PercentRange \div 2, PercentRange - 1}

\* a draw from the closed range [0, n]
Intn_Inclusive(n) == {0, n}

\* rand.Intn(n), n > 0: the least and the greatest value of [0, n)
Intn(n) == {0, n - 1}

getMaxDoc == max_doc_id

\* a bound set one too high
SetMaxDoc_Skip(maxDocId) == max_doc_id' = maxDocId + 1

SetMaxDoc(maxDocId) == max_doc_id' = maxDocId

\* the value of the "Cluster1" key of a document: fmt.Sprintf("%d@gmail.com",
\* n), or absent
ClusterKey(n) == [local |-> Digits(n), domain |-> "gmail.com"]
NoCluster == [local |-> <<>>, domain |-> ""]

\* a hot branch taken when the draw is below hotClusterPercentage - 1
getClusterKey_OffByOne(numClusters, hotClusterPercentage) ==
    {IF hotClusterPercentage > 0 /\ r < hotClusterPercentage - 1
     THEN ClusterKey(0) ELSE ClusterKey(n) :
        r \in IntnPercent, n \in Intn(numClusters)}

\* getClusterKey: the keys the call can return, r being the draw of
\* rand.Intn(100) and n the draw of rand.Intn(numClusters)
getClusterKey(numClusters, hotClusterPercentage) ==
    {IF hotClusterPercentage > 0 /\ r < hotClusterPercentage
     THEN ClusterKey(0) ELSE ClusterKey(n) :
        r \in IntnPercent, n \in Intn(numClusters)}

\* GenerateDoc: if spec.NumClusters > 0 { doc["Cluster1"] = getClusterKey(...) }
\* (not reached when the id assignment panics)
AssignCluster(spec) ==
    IF proc' = "panic"
    THEN UNCHANGED Cluster1
    ELSE IF spec.NumClusters > 0
         THEN Cluster1' \in getClusterKey(spec.NumClusters, spec.HotClusterPercentage)
         ELSE Cluster1' = NoCluster

\* GenerateDoc counting a document in doc_id only when it updates an existing
\* id (doc_id = doc_id + 1 inside the update branch)
GenerateDoc_InsertNoCount(spec) ==
  /\
    IF spec.Destination = "rockset"
    THEN IF spec.Mode = "mixed"
         THEN \E r \in IntnPercent :
                IF r < spec.UpdatePercentage
                THEN IF getMaxDoc <= 0
                     THEN /\ proc' = "panic"
                          /\ UNCHANGED <<doc_id, max_doc_id, doc>>
                     ELSE \E u \in Intn(getMaxDoc) :
                            /\ doc' = SeqId(u)
                            /\ doc_id' = doc_id + 1
                            /\ UNCHANGED <<max_doc_id, proc>>
                ELSE /\ doc' = SeqId(getMaxDoc)
                     /\ SetMaxDoc(getMaxDoc + 1)
                     /\ UNCHANGED <<doc_id, proc>>
         ELSE IF spec.IdMode = "uuid"
         THEN /\ doc' = UuidId
              /\ UNCHANGED <<doc_id, max_doc_id, proc>>
         ELSE /\ doc' = SeqId(doc_id)
              /\ doc_id' = doc_id + 1
              /\ UNCHANGED <<max_doc_id, proc>>
    ELSE /\ doc' = NoId
         /\ UNCHANGED <<doc_id, max_doc_id, proc>>
  /\ AssignCluster(spec)

(***************************************************************************)
(* GenerateDoc(spec): assigns doc' (the returned document's _id), the id   *)
(* space and Cluster1'; rand.Intn(n) panics when n <= 0.                   *)
(***************************************************************************)
GenerateDoc(spec) ==
  /\
    IF spec.Destination = "rockset"
    THEN IF spec.Mode = "mixed"
         THEN \E r \in IntnPercent :
                IF r < spec.UpdatePercentage
                THEN IF getMaxDoc <= 0
                     THEN /\ proc' = "panic"
                          /\ UNCHANGED <<doc_id, max_doc_id, doc>>
                     ELSE \E u \in Intn(getMaxDoc) :
                            /\ doc' = SeqId(u)
                            /\ doc_id' = doc_id + 1
                            /\ UNCHANGED <<max_doc_id, proc>>
                ELSE /\ doc' = SeqId(getMaxDoc)
                     /\ SetMaxDoc(getMaxDoc + 1)
                     /\ doc_id' = doc_id + 1
                     /\ UNCHANGED proc
         ELSE IF spec.IdMode = "uuid"
         THEN /\ doc' = UuidId
              /\ UNCHANGED <<doc_id, max_doc_id, proc>>
         ELSE IF spec.IdMode = "sequential"
         THEN /\ doc' = SeqId(doc_id)
              /\ doc_id' = doc_id + 1
              /\ UNCHANGED <<max_doc_id, proc>>
         ELSE /\ proc' = "panic"
              /\ UNCHANGED <<doc_id, max_doc_id, doc>>
    ELSE /\ doc' = NoId
         /\ UNCHANGED <<doc_id, max_doc_id, proc>>
  /\ AssignCluster(spec)

\* main.go: documentSpec
DocumentSpec ==
    [Destination |-> cfg.destination, BatchSize |-> cfg.batchSize,
     Mode |-> cfg.mode, IdMode |-> cfg.idMode,
     UpdatePercentage |-> cfg.updatePercentage,
     NumClusters |-> cfg.numClusters,
     HotClusterPercentage |-> cfg.hotClusterPercentage]

(***************************************************************************)
(* main: configuration checks (lines 45-81).                               *)
(***************************************************************************)
ConfigRejected ==
    \/ cfg.hotClusterPercentage > 0 /\ cfg.numClusters < 0
    \/ cfg.hotClusterPercentage = 0
    \/ cfg.hotClusterPercentage > 100
    \/ cfg.numClusters = 0
    \/ ~(cfg.patchMode = "replace" \/ cfg.patchMode = "add")
    \/ cfg.mode = "patch" /\ cfg.idMode # "sequential"
    \/ cfg.mode = "patch" /\ cfg.numDocs <= 0
    \/ /\ cfg.mode = "mixed"
       /\ \/ cfg.idMode # "sequential"
          \/ cfg.updatePercentage < 0
          \/ cfg.updatePercentage > 100
          \/ cfg.maxDocs <= 0

\* getEnvDefaultInt: the default when the variable is not set (<<>>)
getEnvDefaultInt(env, defaultValue) == IF env = <<>> THEN defaultValue ELSE env[1]

\* pps := getEnvDefaultInt("PPS", wps)
pps == getEnvDefaultInt(cfg.envPPS, cfg.wps)

Running == proc = "running"

Validate ==
    /\ Running /\ pc = "start"
    /\ IF ConfigRejected
       THEN proc' = "panic" /\ pc' = pc
       ELSE /\ proc' = proc
            /\ pc' = IF cfg.mode \in {"add_then_patch", "add", "mixed"}
                     THEN "add_setup" ELSE "patch_setup"
    /\ UNCHANGED <<cfg, i, docs_written, batches, genVars, patchVars,
                   tickPending, doneClosed, sigVars, callers, taskVars, streamVars, wireVars>>

(***************************************************************************)
(* main: the add / mixed phase (lines 218-246).                            *)
(***************************************************************************)
AddSetup ==
    /\ Running /\ pc = "add_setup"
    /\ IF cfg.mode = "mixed" THEN SetMaxDoc(cfg.maxDocs) ELSE UNCHANGED max_doc_id
    /\ pc' = "add_loop"
    /\ UNCHANGED <<cfg, proc, i, docs_written, batches, doc_id, doc, Cluster1, docs,
                   patchVars, tickPending, doneClosed, sigVars, callers, taskVars, streamVars, wireVars>>

\* the loop test off by one (docs_written <= numDocs)
AddLoopCond_OffByOne == cfg.numDocs < 0 \/ docs_written <= cfg.numDocs

\* for numDocs < 0 || docs_written < numDocs
AddLoopCond == cfg.numDocs < 0 \/ docs_written < cfg.numDocs

AddLoopCheck ==
    /\ Running /\ pc = "add_loop"
    /\ IF AddLoopCond
       THEN pc' = "add_select" /\ proc' = proc
       ELSE IF cfg.mode \in {"add_then_patch", "patch"}
            THEN pc' = "patch_setup" /\ proc' = proc
            ELSE pc' = pc /\ proc' = "returned"
    /\ UNCHANGED <<cfg, i, docs_written, batches, genVars, patchVars,
                   tickPending, doneClosed, sigVars, callers, taskVars, streamVars, wireVars>>

\* a send task: the Destination method it calls, the number of documents or
\* patches of its batch, and the tick whose body started it
SendTask(call, n) == [call |-> call, n |-> n, tick |-> Len(tickLog)]

\* select: case <-doneChan
SelectDone(at) ==
    /\ Running /\ pc = at
    /\ doneClosed
    /\ proc' = "exit0"
    /\ UNCHANGED <<cfg, pc, i, docs_written, batches, genVars, patchVars,
                   tickPending, doneClosed, sigVars, callers, taskVars, streamVars, wireVars>>

\* select: case <-t.C
SelectTick(at, body) ==
    /\ Running /\ pc = at
    /\ tickPending
    /\ tickPending' = FALSE
    /\ i' = 0
    /\ pc' = body
    /\ tickLog' = Append(tickLog, body)
    /\ UNCHANGED <<cfg, proc, docs_written, batches, genVars, patchVars,
                   doneClosed, sigVars, callers, sends, inflight, sendErrors,
                   streamVars, wireVars>>

AddSelectDone == SelectDone("add_select")

AddSelectTick == SelectTick("add_select", "add_unit")

\* a tick body that runs once more (i <= wps)
AddUnit_OneMore ==
    /\ Running /\ pc = "add_unit"
    /\ IF i <= cfg.wps
       THEN pc' = "add_gen" /\ docs' = <<>>
       ELSE pc' = "add_loop" /\ docs' = docs
    /\ UNCHANGED <<cfg, proc, i, docs_written, batches, doc_id, max_doc_id, doc, Cluster1,
                   patchVars, tickPending, doneClosed, sigVars, callers, taskVars, streamVars, wireVars>>

\* for i := 0; i < wps; i++ { docs, err := generator.GenerateDocs(documentSpec)
AddUnit ==
    /\ Running /\ pc = "add_unit"
    /\ IF i < cfg.wps
       THEN pc' = "add_gen" /\ docs' = <<>>
       ELSE pc' = "add_loop" /\ docs' = docs
    /\ UNCHANGED <<cfg, proc, i, docs_written, batches, doc_id, max_doc_id, doc, Cluster1,
                   patchVars, tickPending, doneClosed, sigVars, callers, taskVars, streamVars, wireVars>>

\* GenerateDocs: for i := 0; i < spec.BatchSize; i++ { doc, err := GenerateDoc(spec)
GenerateDocsStep ==
    /\ Running /\ pc = "add_gen"
    /\ Len(docs) < cfg.batchSize
    /\ GenerateDoc(DocumentSpec)
    /\ docs' = IF proc' = "panic" THEN docs ELSE Append(docs, doc')
    /\ UNCHANGED <<cfg, pc, i, docs_written, batches, patchVars, tickPending,
                   doneClosed, sigVars, callers, taskVars, streamVars, wireVars>>

\* a GenerateDocs that returns the documents generated before the failure
GenerateDocsFail_Partial ==
    /\ Running /\ pc = "add_gen"
    /\ Len(docs) < cfg.batchSize
    /\ pc' = "add_err"
    /\ UNCHANGED <<cfg, proc, i, docs_written, batches, genVars, patchVars,
                   tickPending, doneClosed, sigVars, callers, taskVars, streamVars, wireVars>>

\* faker.FakeData or json.Unmarshal fails: GenerateDoc returns the error
\* before any id is assigned, and GenerateDocs returns nil, err
GenerateDocsFail ==
    /\ Running /\ pc = "add_gen"
    /\ Len(docs) < cfg.batchSize
    /\ docs' = <<>>
    /\ pc' = "add_err"
    /\ UNCHANGED <<cfg, proc, i, docs_written, batches, doc_id, max_doc_id, doc, Cluster1,
                   patchVars, tickPending, doneClosed, sigVars, callers, taskVars,
                   streamVars, wireVars>>

\* if err != nil { log.Printf("document generation failed: %v", err); os.Exit(1) }
AddGenError ==
    /\ Running /\ pc = "add_err"
    /\ proc' = "exit1"
    /\ UNCHANGED <<cfg, pc, i, docs_written, batches, genVars, patchVars,
                   tickPending, doneClosed, sigVars, callers, taskVars, streamVars, wireVars>>

\* a tick body that hands over a batch only once the sends before it have
\* returned (a joined send)
AddDispatch_Wait ==
    /\ Running /\ pc = "add_gen"
    /\ Len(docs) >= cfg.batchSize
    /\ inflight = 0
    /\ sends' = Append(sends, SendTask("SendDocument", Len(docs)))
    /\ inflight' = inflight + 1
    /\ batches' = batches + 1
    /\ docs_written' = docs_written + cfg.batchSize
    /\ i' = i + 1
    /\ pc' = "add_unit"
    /\ UNCHANGED <<cfg, proc, genVars, patchVars, tickPending, doneClosed,
                   sigVars, callers, sendErrors, tickLog, streamVars, wireVars>>

\* go func(i int) { d.SendDocument(docs) }(i); docs_written = docs_written + batchSize
AddDispatch ==
    /\ Running /\ pc = "add_gen"
    /\ Len(docs) >= cfg.batchSize
    /\ sends' = Append(sends, SendTask("SendDocument", Len(docs)))
    /\ inflight' = inflight + 1
    /\ batches' = batches + 1
    /\ docs_written' = docs_written + cfg.batchSize
    /\ i' = i + 1
    /\ pc' = "add_unit"
    /\ UNCHANGED <<cfg, proc, genVars, patchVars, tickPending, doneClosed,
                   sigVars, callers, sendErrors, tickLog, streamVars, wireVars>>

(***************************************************************************)
(* main: the patch phase (lines 248-286).                                  *)
(***************************************************************************)
PatchSetup ==
    /\ Running /\ pc = "patch_setup"
    /\ IF cfg.mode = "patch" THEN SetMaxDoc(cfg.numDocs) ELSE UNCHANGED max_doc_id
    /\ IF cfg.destination # "rockset"
       THEN proc' = "panic" /\ pc' = pc /\ producer' = producer
       ELSE /\ proc' = proc /\ pc' = "patch_select"
            /\ producer' = IF cfg.patchMode = "replace" THEN "replace" ELSE "add"
    /\ UNCHANGED <<cfg, i, docs_written, batches, doc_id, doc, Cluster1, docs, patchVars,
                   tickPending, doneClosed, sigVars, callers, taskVars,
                   patchChannel, options, wireVars>>

PatchSelectDone == SelectDone("patch_select")

PatchSelectTick == SelectTick("patch_select", "patch_unit")

\* a patch loop that returns once docs_written has reached numDocs
PatchUnit_Budget ==
    /\ Running /\ pc = "patch_unit"
    /\ IF docs_written >= cfg.numDocs
       THEN /\ proc' = "returned"
            /\ UNCHANGED <<pc, num_patch, limit, ids_to_patch>>
       ELSE IF i < pps
       THEN /\ pc' = "gp_sample"
            /\ num_patch' = cfg.batchSize
            /\ limit' = getMaxDoc
            /\ ids_to_patch' = {}
            /\ UNCHANGED proc
       ELSE /\ pc' = "patch_select"
            /\ UNCHANGED <<proc, num_patch, limit, ids_to_patch>>
    /\ UNCHANGED <<cfg, i, docs_written, batches, genVars, ids, patches, received,
                   tickPending, doneClosed, sigVars, callers, taskVars, streamVars, wireVars>>

\* for i := 0; i < pps; i++ { docs, err := generator.GeneratePatches(batchSize, patchChannel)
\* GeneratePatches: genUniqueInRange(getMaxDoc(), num_patch)
PatchUnit ==
    /\ Running /\ pc = "patch_unit"
    /\ IF i < pps
       THEN /\ pc' = "gp_sample"
            /\ num_patch' = cfg.batchSize
            /\ limit' = getMaxDoc
            /\ ids_to_patch' = {}
       ELSE /\ pc' = "patch_select"
            /\ UNCHANGED <<num_patch, limit, ids_to_patch>>
    /\ UNCHANGED <<cfg, proc, i, docs_written, batches, genVars, ids, patches,
                   received,
                   tickPending, doneClosed, sigVars, callers, taskVars, streamVars, wireVars>>

\* a draw from [0, limit] instead of [0, limit)
genUniqueInRangeStep_Inclusive(count) ==
    /\ Cardinality(ids_to_patch) < count
    /\ IF limit <= 0
       THEN /\ proc' = "panic"
            /\ UNCHANGED ids_to_patch
       ELSE /\ \E id \in 0..limit : ids_to_patch' = ids_to_patch \cup {id}
            /\ UNCHANGED proc

\* a draw that never yields the greatest id of the range
genUniqueInRangeStep_Low(count) ==
    /\ Cardinality(ids_to_patch) < count
    /\ IF limit <= 0
       THEN /\ proc' = "panic"
            /\ UNCHANGED ids_to_patch
       ELSE /\ \E id \in 0..(limit - 2) : ids_to_patch' = ids_to_patch \cup {id}
            /\ UNCHANGED proc

\* genUniqueInRange: for len(ids_to_patch) < count { id := random.Intn(limit) ...
genUniqueInRangeStep(count) ==
    /\ Cardinality(ids_to_patch) < count
    /\ IF limit <= 0
       THEN /\ proc' = "panic"
            /\ UNCHANGED ids_to_patch
       ELSE /\ \E id \in 0..(limit - 1) : ids_to_patch' = ids_to_patch \cup {id}
            /\ UNCHANGED proc

GpSample ==
    /\ Running /\ pc = "gp_sample"
    /\ genUniqueInRangeStep(num_patch)
    /\ UNCHANGED <<cfg, pc, i, docs_written, batches, genVars, num_patch, limit,
                   ids, patches, received, tickPending, doneClosed, sigVars, callers,
                   taskVars, streamVars, wireVars>>

\* the orders in which `for k := range ids_to_patch` can visit the keys of
\* the map
RangeOrders(m) ==
    {f \in [1..Cardinality(m) -> m] :
        \A a, b \in 1..Cardinality(m) : a # b => f[a] # f[b]}

\* a result that leaves out the key visited last
genUniqueInRangeResult_DropLast(m, count) ==
    {SubSeq(f, 1, Len(f) - 1) : f \in RangeOrders(m)}

\* genUniqueInRange: ids := make([]int, count); for k := range ids_to_patch {
\* ids[i] = k; i++ }: the slices the function can return for the map m
genUniqueInRangeResult(m, count) ==
    {[k \in 1..count |-> IF k <= Len(f) THEN f[k] ELSE 0] : f \in RangeOrders(m)}

\* genUniqueInRange returns; GeneratePatches: patches := make([]interface{}, 0)
genUniqueInRangeReturn ==
    /\ Running /\ pc = "gp_sample"
    /\ Cardinality(ids_to_patch) >= num_patch
    /\ ids' \in genUniqueInRangeResult(ids_to_patch, num_patch)
    /\ ids_to_patch' = {}
    /\ patches' = <<>>
    /\ received' = <<>>
    /\ pc' = "gp_patch"
    /\ UNCHANGED <<cfg, proc, i, docs_written, batches, genVars, num_patch, limit,
                   tickPending, doneClosed, sigVars, callers, taskVars, streamVars, wireVars>>

\* {"op": "add", "path": "/_ts", "value": CurrentTimeMicros()}
TsOp == [op |-> "add", path |-> "/_ts"]

\* a patch whose operations are in the other order
generatePatch_TsFirst(id, field_patch) ==
    [_id |-> SeqId(id), patch |-> <<TsOp, field_patch>>]

\* generatePatch: patch["_id"] = formatDocId(id); patch["patch"] = add_op
generatePatch(id, field_patch) ==
    [_id |-> SeqId(id), patch |-> <<field_patch, TsOp>>]

\* for _, id := range ids_to_patch { patch := generatePatch(id, <-c)
\* patches = append(patches, patch) }: the range is at ids[Len(patches) + 1]
GpPatch ==
    /\ Running /\ pc = "gp_patch"
    /\ Len(patches) < Len(ids)
    /\ patchChannel # <<>>
    /\ patches' = Append(patches, generatePatch(ids[Len(patches) + 1],
                                                Head(patchChannel)))
    /\ received' = Append(received, Head(patchChannel))
    /\ patchChannel' = Tail(patchChannel)
    /\ UNCHANGED <<cfg, pc, proc, i, docs_written, batches, genVars, num_patch,
                   limit, ids_to_patch, ids, tickPending, doneClosed, sigVars,
                   callers, taskVars, options, producer, wireVars>>

\* GeneratePatches: return patches, nil
GeneratePatchesReturn ==
    /\ Running /\ pc = "gp_patch"
    /\ Len(patches) >= Len(ids)
    /\ pc' = "patch_send"
    /\ UNCHANGED <<cfg, proc, i, docs_written, batches, genVars, patchVars,
                   tickPending, doneClosed, sigVars, callers, taskVars, streamVars, wireVars>>

\* go func(i int) { d.SendPatch(docs) }(i); docs_written = docs_written + batchSize
\* (the batch now belongs to the send task)
PatchDispatch ==
    /\ Running /\ pc = "patch_send"
    /\ sends' = Append(sends, SendTask("SendPatch", Len(patches)))
    /\ inflight' = inflight + 1
    /\ patches' = <<>>
    /\ ids' = <<>>
    /\ received' = <<>>
    /\ batches' = batches + 1
    /\ docs_written' = docs_written + cfg.batchSize
    /\ i' = i + 1
    /\ pc' = "patch_unit"
    /\ UNCHANGED <<cfg, proc, genVars, num_patch, limit, ids_to_patch,
                   tickPending, doneClosed, sigVars, callers, sendErrors, tickLog, streamVars, wireVars>>

(***************************************************************************)
(* The patch stream: RandomFieldReplace / RandomFieldAdd build their       *)
(* options, shuffle them and send them one by one on patchChannel, for     *)
(* ever. A mutation is its op and its path (values are left out).          *)
(***************************************************************************)
ReplacePaths ==
    <<"/Email", "/About", "/Company", "/Name/First", "/Name/Last", "/Age",
      "/Balance", "/Registered", "/Phone", "/Picture", "/Guid", "/Greeting",
      "/Address/ZipCode", "/Address/Coordinates/Longitude",
      "/Address/Coordinates/Latitude", "/Address/City">>

AddPaths == <<"/<UUIDDigit>", "/Tags/-">>

Min(a, b) == IF a < b THEN a ELSE b

\* a pass of RandomFieldReplace is cut to the length of a pass of
\* RandomFieldAdd: the first templates of its list
MaxOptions == Len(AddPaths)

\* the options of one pass, cut to the first n templates of the list
OptionsOf(kind, n) ==
    IF kind = "replace"
    THEN {[op |-> "replace", path |-> ReplacePaths[k]] :
             k \in 1..Min(Len(ReplacePaths), n)}
    ELSE {[op |-> "add", path |-> AddPaths[k]] :
             k \in 1..Min(Len(AddPaths), n)}

Options(kind) == OptionsOf(kind, MaxOptions)

\* for { options := ...; rand.Shuffle(len(options), ...)
Shuffle(n) ==
    /\ Running
    /\ producer # "off"
    /\ options = <<>>
    /\ options' \in RangeOrders(OptionsOf(producer, n))
    /\ UNCHANGED <<cfg, pc, proc, i, docs_written, batches, genVars, patchVars,
                   tickPending, doneClosed, sigVars, callers, taskVars,
                   patchChannel, producer, wireVars>>

ProducerShuffle == Shuffle(MaxOptions)

\* a producer whose send never blocks (a channel without a capacity)
ProducerSend_NoBlock ==
    /\ Running
    /\ options # <<>>
    /\ patchChannel' = Append(patchChannel, Head(options))
    /\ options' = Tail(options)
    /\ UNCHANGED <<cfg, pc, proc, i, docs_written, batches, genVars, patchVars,
                   tickPending, doneClosed, sigVars, callers, taskVars, producer, wireVars>>

\* a producer that sends the first option of its pass again and again
ProducerSend_Repeat ==
    /\ Running
    /\ options # <<>>
    /\ Len(patchChannel) < PatchChanCap
    /\ patchChannel' = Append(patchChannel, Head(options))
    /\ options' = options
    /\ UNCHANGED <<cfg, pc, proc, i, docs_written, batches, genVars, patchVars,
                   tickPending, doneClosed, sigVars, callers, taskVars, producer, wireVars>>

\* for _, op := range options { c <- op }
ProducerSend ==
    /\ Running
    /\ options # <<>>
    /\ Len(patchChannel) < PatchChanCap
    /\ patchChannel' = Append(patchChannel, Head(options))
    /\ options' = Tail(options)
    /\ UNCHANGED <<cfg, pc, proc, i, docs_written, batches, genVars, patchVars,
                   tickPending, doneClosed, sigVars, callers, taskVars, producer, wireVars>>

(***************************************************************************)
(* The ticker (t := time.NewTicker(time.Second)): a tick is dropped when   *)
(* the channel still holds one.                                            *)
(***************************************************************************)
TickFire ==
    /\ Running
    /\ pc \notin {"start", "api"}
    /\ batches < MaxBatches
    /\ tickPending' = TRUE
    /\ UNCHANGED <<cfg, pc, proc, i, docs_written, batches, genVars, patchVars,
                   doneClosed, sigVars, callers, taskVars, streamVars, wireVars>>

(***************************************************************************)
(* Signals (lines 173-178, 365-380). signal.Notify does not block: a       *)
(* signal that finds signalChan full is dropped.                           *)
(***************************************************************************)
DeliverSignal ==
    /\ Running
    /\ pc \notin {"start", "api"}
    /\ \E s \in Signals :
         signalChan' = IF Len(signalChan) < SignalChanCap
                       THEN Append(signalChan, s) ELSE signalChan
    /\ UNCHANGED <<cfg, pc, proc, i, docs_written, batches, genVars, patchVars,
                   tickPending, doneClosed, sigDone, callers, taskVars, streamVars, wireVars>>

\* a handler without the done flag: a later signal closes doneChan again,
\* and close of a closed channel panics
signalHandler_NoDone ==
    /\ Running
    /\ Len(signalChan) > 0
    /\ signalChan' = Tail(signalChan)
    /\ IF Head(signalChan) = "SIGTERM"
       THEN proc' = "exit0" /\ UNCHANGED <<sigDone, doneClosed>>
       ELSE IF doneClosed
            THEN proc' = "panic" /\ UNCHANGED <<sigDone, doneClosed>>
            ELSE proc' = proc /\ sigDone' = TRUE /\ doneClosed' = TRUE
    /\ UNCHANGED <<cfg, pc, i, docs_written, batches, genVars, patchVars,
                   tickPending, callers, taskVars, streamVars, wireVars>>

\* a handler that tests for SIGTERM before it tests done
signalHandler_TermFirst ==
    /\ Running
    /\ Len(signalChan) > 0
    /\ signalChan' = Tail(signalChan)
    /\ IF Head(signalChan) = "SIGTERM"
       THEN proc' = "exit0" /\ UNCHANGED <<sigDone, doneClosed>>
       ELSE IF sigDone
            THEN proc' = "exit1" /\ UNCHANGED <<sigDone, doneClosed>>
            ELSE proc' = proc /\ sigDone' = TRUE /\ doneClosed' = TRUE
    /\ UNCHANGED <<cfg, pc, i, docs_written, batches, genVars, patchVars,
                   tickPending, callers, taskVars, streamVars, wireVars>>

signalHandler ==
    /\ Running
    /\ Len(signalChan) > 0
    /\ signalChan' = Tail(signalChan)
    /\ IF sigDone
       THEN proc' = "exit1" /\ UNCHANGED <<sigDone, doneClosed>>
       ELSE IF Head(signalChan) = "SIGTERM"
            THEN proc' = "exit0" /\ UNCHANGED <<sigDone, doneClosed>>
            ELSE proc' = proc /\ sigDone' = TRUE /\ doneClosed' = TRUE
    /\ UNCHANGED <<cfg, pc, i, docs_written, batches, genVars, patchVars,
                   tickPending, callers, taskVars, streamVars, wireVars>>

(***************************************************************************)
(* The environment: WPS, BATCH_SIZE, DESTINATION, NUM_DOCS, MAX_DOCS,      *)
(* MODE, ID_MODE, UPDATE_PERCENTAGE, PPS with the defaults of lines 26-38  *)
(* and 83 (-1 is "not set"; envPPS is <<>> when PPS is not set).           *)
(* Cluster settings other than the default are taken with one add run.     *)
(***************************************************************************)
Percentages == {-1, 0, 50, 100, 101}

\* PATCH_MODE: the default, the other accepted value, and one refused
PatchModes == {"replace", "add", "upsert"}

Configs ==
    { c \in [mode : Modes, idMode : IdModes, destination : Destinations,
             numDocs : -1..MaxNumDocs, maxDocs : -1..MaxMaxDocs,
             wps : 1..MaxWps, envPPS : {<<>>} \cup {<<n>> : n \in 1..MaxWps},
             batchSize : 0..MaxBatch, updatePercentage : Percentages,
             patchMode : PatchModes, numClusters : {-1, 0, MaxClusters},
             hotClusterPercentage : Percentages] :
        /\ c.mode # "mixed" => c.maxDocs = -1 /\ c.updatePercentage = -1
        /\ (c.numClusters # -1 \/ c.hotClusterPercentage # -1) =>
               /\ c.mode = "add" /\ c.destination = "null" /\ c.idMode = "uuid"
               /\ c.numDocs = 1 /\ c.wps = 1 /\ c.batchSize = 1
               /\ c.patchMode = "replace"
        /\ c.mode \in {"add", "mixed"} => c.patchMode # "add"
        /\ c.mode \in {"add", "mixed"} => c.envPPS = <<>>
        /\ c.envPPS # <<c.wps>> }

MainInit ==
    /\ pc = "start"
    /\ proc = "running"
    /\ i = 0
    /\ docs_written = 0
    /\ batches = 0
    /\ doc_id = 0
    /\ max_doc_id = 0
    /\ doc = NoId
    /\ Cluster1 = NoCluster
    /\ docs = <<>>
    /\ num_patch = 0
    /\ limit = 0
    /\ ids_to_patch = {}
    /\ ids = <<>>
    /\ patches = <<>>
    /\ received = <<>>
    /\ patchChannel = <<>>
    /\ options = <<>>
    /\ producer = "off"
    /\ tickPending = FALSE
    /\ doneClosed = FALSE
    /\ signalChan = <<>>
    /\ sigDone = FALSE
    /\ callers = <<>>
    /\ WireIdle
    /\ sends = <<>>
    /\ inflight = 0
    /\ sendErrors = 0
    /\ tickLog = <<>>

Init ==
    /\ cfg \in Configs
    /\ MainInit

Next ==
    \/ Validate
    \/ AddSetup
    \/ AddLoopCheck
    \/ AddSelectDone
    \/ AddSelectTick
    \/ AddUnit
    \/ GenerateDocsStep
    \/ GenerateDocsFail
    \/ AddGenError
    \/ AddDispatch
    \/ PatchSetup
    \/ PatchSelectDone
    \/ PatchSelectTick
    \/ PatchUnit
    \/ GpSample
    \/ genUniqueInRangeReturn
    \/ GpPatch
    \/ GeneratePatchesReturn
    \/ PatchDispatch
    \/ ProducerShuffle
    \/ ProducerSend
    \/ TickFire
    \/ DeliverSignal
    \/ signalHandler

Spec == Init /\ [][Next]_vars

\* the steps of the main goroutine
MainNext ==
    \/ Validate
    \/ AddSetup
    \/ AddLoopCheck
    \/ AddSelectDone
    \/ AddSelectTick
    \/ AddUnit
    \/ GenerateDocsStep
    \/ GenerateDocsFail
    \/ AddGenError
    \/ AddDispatch
    \/ PatchSetup
    \/ PatchSelectDone
    \/ PatchSelectTick
    \/ PatchUnit
    \/ GpSample
    \/ genUniqueInRangeReturn
    \/ GpPatch
    \/ GeneratePatchesReturn
    \/ PatchDispatch

\* a run of the add / mixed loop alone (MODE=add or MODE=mixed): the patch
\* phase is never entered
AddInit ==
    /\ cfg \in {c \in Configs : c.mode \in {"add", "mixed"}}
    /\ MainInit

AddNext ==
    \/ Validate
    \/ AddSetup
    \/ AddLoopCheck
    \/ AddSelectDone
    \/ AddSelectTick
    \/ AddUnit
    \/ GenerateDocsStep
    \/ GenerateDocsFail
    \/ AddGenError
    \/ AddDispatch
    \/ TickFire
    \/ DeliverSignal
    \/ signalHandler

\* the ticker keeps firing, the main goroutine and the signal handler keep
\* being scheduled
FairSpec ==
    /\ AddInit /\ [][AddNext]_vars
    /\ WF_vars(TickFire)
    /\ WF_vars(MainNext)
    /\ WF_vars(signalHandler)

(***************************************************************************)
(* The send tasks: go func(i int) { if err := d.SendDocument(docs);        *)
(* err != nil { log.Printf(...) } }(i), and the same with SendPatch. A     *)
(* task ends when its call returns, with or without an error; an error is  *)
(* logged. Runs with the send tasks are started on sequential-id runs of   *)
(* MODE=add and MODE=patch against rockset with PPS not set and batches of *)
(* one item.                                                               *)
(***************************************************************************)
\* a task that starts a new task for its batch when its call fails
SendReturn_Retry ==
    /\ Running
    /\ inflight > 0
    /\ \E k \in 1..Len(sends), err \in BOOLEAN :
         IF err
         THEN /\ sendErrors' = sendErrors + 1
              /\ sends' = Append(sends, sends[k])
              /\ inflight' = inflight
         ELSE /\ inflight' = inflight - 1
              /\ UNCHANGED <<sends, sendErrors>>
    /\ UNCHANGED <<cfg, pc, proc, i, docs_written, batches, genVars, patchVars,
                   tickPending, doneClosed, sigVars, callers, tickLog, streamVars, wireVars>>

\* the call of one of the running tasks returns; if err != nil { log.Printf(...) }
SendReturn ==
    /\ Running
    /\ inflight > 0
    /\ inflight' = inflight - 1
    /\ \E err \in BOOLEAN :
         sendErrors' = IF err THEN sendErrors + 1 ELSE sendErrors
    /\ UNCHANGED <<cfg, pc, proc, i, docs_written, batches, genVars, patchVars,
                   tickPending, doneClosed, sigVars, callers, sends, tickLog,
                   streamVars, wireVars>>

SendConfigs ==
    {c \in Configs :
        /\ c.mode \in {"add", "patch"}
        /\ c.destination = "rockset" /\ c.idMode = "sequential"
        /\ c.patchMode = (IF c.mode = "patch" THEN "add" ELSE "replace")
        /\ c.envPPS = <<>> /\ c.batchSize = 1}

SendInit ==
    /\ cfg \in SendConfigs
    /\ MainInit

SendNext ==
    \/ Next
    \/ SendReturn

SendSpec == SendInit /\ [][SendNext]_vars

(***************************************************************************)
(* The send tasks followed one by one.  The closure of the k-th task       *)
(* refers to the variable docs of its own loop iteration (docs, err := ... *)
(* is declared in the loop body), which holds the k-th batch generated and *)
(* is never assigned again; the task calls the Destination method once.    *)
(***************************************************************************)
TaskDone(k) == \E r \in submitted : r.task = k

\* a closure that refers to a variable docs shared by all iterations, which
\* holds the batch generated last
SendSubmit_Shared ==
    /\ Running
    /\ \E k \in 1..Len(sends) :
         /\ ~TaskDone(k)
         /\ submitted' = submitted \cup {[task |-> k, batch |-> batches, n |-> sends[k].n]}
    /\ UNCHANGED <<cfg, pc, proc, i, docs_written, batches, genVars, patchVars,
                   tickPending, doneClosed, sigVars, callers, taskVars, streamVars,
                   wire, result, metrics>>

\* go func(i int) { d.SendDocument(docs) }(i): the k-th task submits the
\* batch its closure refers to
SendSubmit ==
    /\ Running
    /\ \E k \in 1..Len(sends) :
         /\ ~TaskDone(k)
         /\ submitted' = submitted \cup {[task |-> k, batch |-> k, n |-> sends[k].n]}
    /\ UNCHANGED <<cfg, pc, proc, i, docs_written, batches, genVars, patchVars,
                   tickPending, doneClosed, sigVars, callers, taskVars, streamVars,
                   wire, result, metrics>>

TaskConfigs ==
    {c \in Configs :
        /\ c.destination = "rockset" /\ c.idMode = "sequential"
        /\ c.mode \in {"add", "patch"}
        /\ c.patchMode = "replace" /\ c.envPPS = <<>> /\ c.batchSize = 1
        /\ c.numDocs > 0}

TaskInit ==
    /\ cfg \in TaskConfigs
    /\ MainInit

\* a run in which no signal arrives
TaskNext ==
    \/ Validate
    \/ AddSetup
    \/ AddLoopCheck
    \/ AddSelectTick
    \/ AddUnit
    \/ GenerateDocsStep
    \/ GenerateDocsFail
    \/ AddGenError
    \/ AddDispatch
    \/ PatchSetup
    \/ PatchSelectTick
    \/ PatchUnit
    \/ GpSample
    \/ genUniqueInRangeReturn
    \/ GpPatch
    \/ GeneratePatchesReturn
    \/ PatchDispatch
    \/ ProducerShuffle
    \/ ProducerSend
    \/ TickFire
    \/ SendSubmit

TaskSpec == TaskInit /\ [][TaskNext]_vars

(***************************************************************************)
(* Package generator called directly, one call after another, with any     *)
(* DocumentSpec (as rockset_test.go and elastic_test.go call the package). *)
(***************************************************************************)
ApiSpecs ==
    [Destination : Destinations, BatchSize : {1}, Mode : {"add", "mixed"},
     IdMode : IdModes, UpdatePercentage : {0, 50, 100},
     NumClusters : {-1, MaxClusters}, HotClusterPercentage : {-1, 50, 100}]

ApiSetMaxDoc ==
    /\ Running /\ pc = "api"
    /\ \E n \in 0..MaxMaxDocs : SetMaxDoc(n)
    /\ UNCHANGED <<cfg, pc, proc, i, docs_written, batches, doc_id, doc, Cluster1, docs,
                   patchVars, tickPending, doneClosed, sigVars, callers, taskVars, streamVars, wireVars>>

ApiGenerateDoc ==
    /\ Running /\ pc = "api"
    /\ doc_id < MaxApiDocs
    /\ \E spec \in ApiSpecs :
         /\ cfg' = [cfg EXCEPT !.mode = spec.Mode, !.idMode = spec.IdMode,
                               !.destination = spec.Destination,
                               !.updatePercentage = spec.UpdatePercentage,
                               !.numClusters = spec.NumClusters,
                               !.hotClusterPercentage = spec.HotClusterPercentage]
         /\ GenerateDoc(spec)
    /\ UNCHANGED <<pc, i, docs_written, batches, docs, patchVars, tickPending,
                   doneClosed, sigVars, callers, taskVars, streamVars, wireVars>>

DefaultConfig ==
    [mode |-> "add", idMode |-> "uuid", destination |-> "rockset", numDocs |-> -1,
     maxDocs |-> -1, wps |-> 1, envPPS |-> <<>>, batchSize |-> 1,
     updatePercentage |-> -1, patchMode |-> "replace", numClusters |-> -1,
     hotClusterPercentage |-> -1]

ApiInit ==
    /\ cfg = DefaultConfig
    /\ pc = "api"
    /\ proc = "running"
    /\ i = 0
    /\ docs_written = 0
    /\ batches = 0
    /\ doc_id = 0
    /\ max_doc_id = 0
    /\ doc = NoId
    /\ Cluster1 = NoCluster
    /\ docs = <<>>
    /\ num_patch = 0
    /\ limit = 0
    /\ ids_to_patch = {}
    /\ ids = <<>>
    /\ patches = <<>>
    /\ received = <<>>
    /\ patchChannel = <<>>
    /\ options = <<>>
    /\ producer = "off"
    /\ tickPending = FALSE
    /\ doneClosed = FALSE
    /\ signalChan = <<>>
    /\ sigDone = FALSE
    /\ callers = <<>>
    /\ WireIdle
    /\ sends = <<>>
    /\ inflight = 0
    /\ sendErrors = 0
    /\ tickLog = <<>>

ApiNext ==
    \/ ApiSetMaxDoc
    \/ ApiGenerateDoc

ApiSpec == ApiInit /\ [][ApiNext]_vars

(***************************************************************************)
(* GenerateDoc called from several goroutines at once in sequential id     *)
(* mode (destination rockset, mode add). doc_id is a plain package-level   *)
(* int: each read and each write of it is a step of its own.               *)
(*   doc["_id"] = formatDocId(doc_id)      read                            *)
(*   doc_id = doc_id + 1                   read, then write               *)
(***************************************************************************)
Callers == 1..NumCallers

ConcCall(c) ==
    /\ callers[c].pc = "idle"
    /\ callers[c].calls < MaxCalls
    /\ callers' = [callers EXCEPT ![c].pc = "format"]
    /\ UNCHANGED <<cfg, pc, proc, i, docs_written, batches, genVars, patchVars,
                   tickPending, doneClosed, sigVars, taskVars, streamVars, wireVars>>

ConcFormatId(c) ==
    /\ callers[c].pc = "format"
    /\ callers' = [callers EXCEPT ![c].pc = "load", ![c].id = doc_id]
    /\ UNCHANGED <<cfg, pc, proc, i, docs_written, batches, genVars, patchVars,
                   tickPending, doneClosed, sigVars, taskVars, streamVars, wireVars>>

ConcLoad(c) ==
    /\ callers[c].pc = "load"
    /\ callers' = [callers EXCEPT ![c].pc = "store", ![c].tmp = doc_id]
    /\ UNCHANGED <<cfg, pc, proc, i, docs_written, batches, genVars, patchVars,
                   tickPending, doneClosed, sigVars, taskVars, streamVars, wireVars>>

\* the write of doc_id, and the return of the document (appended to docs)
ConcStore(c) ==
    /\ callers[c].pc = "store"
    /\ doc_id' = callers[c].tmp + 1
    /\ doc' = SeqId(callers[c].id)
    /\ docs' = Append(docs, doc')
    /\ callers' = [callers EXCEPT ![c].pc = "idle", ![c].calls = @ + 1]
    /\ UNCHANGED <<cfg, pc, proc, i, docs_written, batches, max_doc_id, Cluster1,
                   patchVars,
                   tickPending, doneClosed, sigVars, taskVars, streamVars, wireVars>>

ConcInit ==
    /\ cfg = [DefaultConfig EXCEPT !.idMode = "sequential"]
    /\ pc = "conc"
    /\ proc = "running"
    /\ i = 0
    /\ docs_written = 0
    /\ batches = 0
    /\ doc_id = 0
    /\ max_doc_id = 0
    /\ doc = NoId
    /\ Cluster1 = NoCluster
    /\ docs = <<>>
    /\ num_patch = 0
    /\ limit = 0
    /\ ids_to_patch = {}
    /\ ids = <<>>
    /\ patches = <<>>
    /\ received = <<>>
    /\ patchChannel = <<>>
    /\ options = <<>>
    /\ producer = "off"
    /\ tickPending = FALSE
    /\ doneClosed = FALSE
    /\ signalChan = <<>>
    /\ sigDone = FALSE
    /\ callers = [c \in Callers |-> [pc |-> "idle", id |-> 0, tmp |-> 0, calls |-> 0]]
    /\ WireIdle
    /\ sends = <<>>
    /\ inflight = 0
    /\ sendErrors = 0
    /\ tickLog = <<>>

ConcNext ==
    \E c \in Callers :
        \/ ConcCall(c)
        \/ ConcFormatId(c)
        \/ ConcLoad(c)
        \/ ConcStore(c)

ConcSpec == ConcInit /\ [][ConcNext]_vars

(***************************************************************************)
(* GeneratePatches called directly, one call after another, on a channel   *)
(* fed by RandomFieldReplace or RandomFieldAdd, with any seeded bound and  *)
(* any number of patches (count > bound and bound = 0 included).           *)
(***************************************************************************)
PatchApiCall ==
    /\ Running /\ pc \in {"papi", "patch_send"}
    /\ \E count \in 0..MaxCount : num_patch' = count
    /\ limit' = getMaxDoc
    /\ ids_to_patch' = {}
    /\ pc' = "gp_sample"
    /\ UNCHANGED <<cfg, proc, i, docs_written, batches, genVars, ids, patches,
                   received, tickPending, doneClosed, sigVars, callers, taskVars,
                   streamVars, wireVars>>

PatchApiInit ==
    /\ \E m \in {"replace", "add"} :
         /\ cfg = [DefaultConfig EXCEPT !.mode = "patch", !.idMode = "sequential",
                                        !.patchMode = m]
         /\ producer = m
    /\ pc = "papi"
    /\ proc = "running"
    /\ i = 0
    /\ docs_written = 0
    /\ batches = 0
    /\ doc_id = 0
    /\ max_doc_id \in 0..MaxLimit
    /\ doc = NoId
    /\ Cluster1 = NoCluster
    /\ docs = <<>>
    /\ num_patch = 0
    /\ limit = 0
    /\ ids_to_patch = {}
    /\ ids = <<>>
    /\ patches = <<>>
    /\ received = <<>>
    /\ patchChannel = <<>>
    /\ options = <<>>
    /\ tickPending = FALSE
    /\ doneClosed = FALSE
    /\ signalChan = <<>>
    /\ sigDone = FALSE
    /\ callers = <<>>
    /\ WireIdle
    /\ sends = <<>>
    /\ inflight = 0
    /\ sendErrors = 0
    /\ tickLog = <<>>

PatchApiNext ==
    \/ PatchApiCall
    \/ GpSample
    \/ genUniqueInRangeReturn
    \/ GpPatch
    \/ GeneratePatchesReturn
    \/ ProducerShuffle
    \/ ProducerSend

PatchApiSpec == PatchApiInit /\ [][PatchApiNext]_vars

\* the producer goroutine and the caller of GeneratePatches keep being
\* scheduled, and the draws of random.Intn are fair: an id not drawn yet is
\* drawn in the end (a step of GpSample that changes the state draws a new
\* id)
FairPatchSpec ==
    /\ PatchApiInit /\ [][PatchApiNext]_vars
    /\ WF_vars(GpSample)
    /\ WF_vars(genUniqueInRangeReturn)
    /\ WF_vars(GpPatch)
    /\ WF_vars(GeneratePatchesReturn)
    /\ WF_vars(ProducerShuffle)
    /\ WF_vars(ProducerSend)

(***************************************************************************)
(* The patch stream on its own: the producer goroutine and a consumer that *)
(* takes mutations from the channel (<-c) whenever it likes, with passes   *)
(* of up to MaxPass templates.                                             *)
(***************************************************************************)
StreamShuffle == Shuffle(MaxPass)

\* <-c (GeneratePatches, document.go:516), the mutations taken kept in
\* received
StreamReceive ==
    /\ Running /\ pc = "stream"
    /\ patchChannel # <<>>
    /\ Len(received) < MaxEmitted
    /\ received' = Append(received, Head(patchChannel))
    /\ patchChannel' = Tail(patchChannel)
    /\ UNCHANGED <<cfg, pc, proc, i, docs_written, batches, genVars, num_patch,
                   limit, ids_to_patch, ids, patches, tickPending, doneClosed,
                   sigVars, callers, taskVars, options, producer, wireVars>>

StreamInit ==
    /\ producer \in {"replace", "add"}
    /\ cfg = [DefaultConfig EXCEPT !.mode = "patch", !.idMode = "sequential",
                                   !.patchMode = producer]
    /\ pc = "stream"
    /\ proc = "running"
    /\ i = 0
    /\ docs_written = 0
    /\ batches = 0
    /\ doc_id = 0
    /\ max_doc_id = 0
    /\ doc = NoId
    /\ Cluster1 = NoCluster
    /\ docs = <<>>
    /\ num_patch = 0
    /\ limit = 0
    /\ ids_to_patch = {}
    /\ ids = <<>>
    /\ patches = <<>>
    /\ received = <<>>
    /\ patchChannel = <<>>
    /\ options = <<>>
    /\ tickPending = FALSE
    /\ doneClosed = FALSE
    /\ signalChan = <<>>
    /\ sigDone = FALSE
    /\ callers = <<>>
    /\ sends = <<>>
    /\ inflight = 0
    /\ sendErrors = 0
    /\ tickLog = <<>>
    /\ WireIdle

StreamNext ==
    \/ StreamShuffle
    \/ ProducerSend
    \/ StreamReceive

StreamSpec == StreamInit /\ [][StreamNext]_vars

(***************************************************************************)
(* Microsecond counts.  A count is held in three base-10^6 limbs           *)
(* <<h2, h1, lo>> (h2 * 10^12 + h1 * 10^6 + lo), so that timeMicro/1000000 *)
(* is <<h2, h1>> and timeMicro%1000000 is lo.                              *)
(***************************************************************************)
LimbNorm(x) ==
    LET m == x[2] + (x[3] \div Million)
    IN  <<x[1] + (m \div Million), m % Million, x[3] % Million>>

LimbAdd(x, y) == LimbNorm(<<x[1] + y[1], x[2] + y[2], x[3] + y[3]>>)

LimbLess(x, y) ==
    \/ x[1] < y[1]
    \/ x[1] = y[1] /\ x[2] < y[2]
    \/ x[1] = y[1] /\ x[2] = y[2] /\ x[3] < y[3]

\* x * 2^e
RECURSIVE Scale(_, _)
Scale(x, e) == IF e = 0 THEN x ELSE LET h == Scale(x, e - 1) IN LimbAdd(h, h)

\* the number of low bits of x that a float64 mantissa does not hold
RECURSIVE DroppedBits(_, _)
DroppedBits(x, e) ==
    IF LimbLess(x, Scale(TwoTo53, e)) THEN e ELSE DroppedBits(x, e + 1)

\* the float64 json.Unmarshal stores for the integer literal x (nearest
\* representable value, ties to the even mantissa); 10^6 is a multiple of
\* 2^6, so the low bits of x are the low bits of its last limb
Float64(x) ==
    LET s == 2 ^ DroppedBits(x, 0)
        r == x[3] % s
        down == <<x[1], x[2], x[3] - r>>
        up == LimbAdd(down, <<0, 0, s>>)
    IN  IF r = 0 THEN x
        ELSE IF 2 * r < s THEN down
        ELSE IF 2 * r > s THEN up
        ELSE IF down[3] % (2 * s) = 0 THEN down ELSE up

\* a conversion that passes the microseconds as nanoseconds
UnixFromMicros_NoScale(timeMicro) ==
    [unix |-> <<timeMicro[1], timeMicro[2]>>, nsec |-> timeMicro[3]]

\* time.Unix(timeMicro/1000000, (timeMicro%1000000)*1000)
UnixFromMicros(timeMicro) ==
    [unix |-> <<timeMicro[1], timeMicro[2]>>, nsec |-> timeMicro[3] * NanosPerMicro]

\* Time.UnixMicro()
UnixMicro(t) == <<t.unix[1], t.unix[2], t.nsec \div NanosPerMicro>>

\* the timestamps a store answers with: around 0, around one second, a
\* timestamp of 2023 (the example of elastic.go), around 2^53 and around 2^54
Anchors ==
    { <<0, 0, 0>>, <<0, 0, Million - 2>>, <<1677, 14840, 315018>>,
      LimbAdd(TwoTo53, <<0, 0, -2>>),
      LimbAdd(Scale(TwoTo53, 1), <<0, 0, -2>>) }

Timestamps == {LimbAdd(a, <<0, 0, d>>) : a \in Anchors, d \in 0..MaxOffset}

(***************************************************************************)
(* The latency probe.  A store's answer to the probe query is one of:      *)
(*   transport          Client.Do returns an error                         *)
(*   status_readable    a status other than 200, body read                 *)
(*   status_unreadable  a status other than 200, io.ReadAll fails          *)
(*   unreadable         200, io.ReadAll fails                              *)
(*   not_json           200, json.Unmarshal fails                          *)
(*   wrong_shape        200, JSON without the expected objects or arrays   *)
(*   empty              200, no document found (no row / a null maximum)   *)
(*   no_ts              200, the value is absent or null                   *)
(*   ts_not_number      200, the value is not a JSON number                *)
(*   ok                 200, the value is the number ts                    *)
(***************************************************************************)
FailureKinds ==
    {"transport", "status_readable", "status_unreadable", "unreadable",
     "not_json", "wrong_shape", "empty", "no_ts", "ts_not_number"}

Responses ==
    [kind : FailureKinds, ts : {<<>>}] \cup [kind : {"ok"}, ts : Timestamps]

Returned(ret, t) == [ret |-> ret, time |-> t]

\* Rockset.GetLatestTimestamp: with a non-200 answer it returns the error of
\* io.ReadAll, which is nil when the body was read; the unchecked type
\* assertions panic on a missing "results" array and on a "ts" that is not
\* a number
RocksetGetLatestTimestamp(resp) ==
    CASE resp.kind \in {"transport", "status_unreadable", "unreadable",
                        "not_json", "empty", "no_ts"}
              -> Returned("err", ZeroTime)
      [] resp.kind = "status_readable"
              -> Returned("nil", ZeroTime)
      [] resp.kind \in {"wrong_shape", "ts_not_number"}
              -> Returned("panic", ZeroTime)
      [] resp.kind = "ok"
              -> Returned("nil", UnixFromMicros(Float64(resp.ts)))

\* Elastic.GetLatestTimestamp: every non-200 answer returns an error; the
\* unchecked type assertions panic on a missing aggregation object and on a
\* "value" that is not a number
ElasticGetLatestTimestamp(resp) ==
    CASE resp.kind \in {"transport", "status_readable", "status_unreadable",
                        "unreadable", "not_json", "empty", "no_ts"}
              -> Returned("err", ZeroTime)
      [] resp.kind \in {"wrong_shape", "ts_not_number"}
              -> Returned("panic", ZeroTime)
      [] resp.kind = "ok"
              -> Returned("nil", UnixFromMicros(Float64(resp.ts)))

ProbeCalls ==
    [dest : {"rockset", "elastic"}, op : {"GetLatestTimestamp"}, n : {0},
     resp : Responses]

\* getE2ELatency: latestTimestamp, err := d.GetLatestTimestamp(); a panic in
\* the call ends the process
GetLatestTimestampCall ==
    /\ Running /\ pc = "probe"
    /\ result' = IF wire.dest = "rockset"
                 THEN RocksetGetLatestTimestamp(wire.resp)
                 ELSE ElasticGetLatestTimestamp(wire.resp)
    /\ proc' = IF result'.ret = "panic" THEN "panic" ELSE proc
    /\ pc' = "probe_ret"
    /\ UNCHANGED <<cfg, i, docs_written, batches, genVars, patchVars, tickPending,
                   doneClosed, sigVars, callers, taskVars, streamVars, wire, metrics, submitted>>

\* getE2ELatency: if err == nil { RecordE2ELatency(now - latestTimestamp) }
\* else { log.Printf(...) }; the sample is kept as the timestamp it was
\* measured from
getE2ELatency ==
    /\ Running /\ pc = "probe_ret"
    /\ metrics' = IF result.ret = "nil"
                  THEN [metrics EXCEPT !.e2eLatency = Append(@, result.time)]
                  ELSE metrics
    /\ pc' = "probe_wait"
    /\ UNCHANGED <<cfg, proc, i, docs_written, batches, genVars, patchVars, tickPending,
                   doneClosed, sigVars, callers, taskVars, streamVars, wire, result, submitted>>

\* the probe goroutine: case <-t.C: getE2ELatency(d), the store answering
\* the next query with any response
ProbeTick ==
    /\ Running /\ pc = "probe_wait"
    /\ Len(metrics.e2eLatency) < MaxProbes
    /\ \E r \in Responses : wire' = [wire EXCEPT !.resp = r]
    /\ result' = NoResult
    /\ pc' = "probe"
    /\ UNCHANGED <<cfg, proc, i, docs_written, batches, genVars, patchVars, tickPending,
                   doneClosed, sigVars, callers, taskVars, streamVars, metrics, submitted>>

ProbeInit ==
    /\ wire \in ProbeCalls
    /\ cfg = [DefaultConfig EXCEPT !.destination = wire.dest]
    /\ pc = "probe"
    /\ proc = "running"
    /\ i = 0
    /\ docs_written = 0
    /\ batches = 0
    /\ doc_id = 0
    /\ max_doc_id = 0
    /\ doc = NoId
    /\ Cluster1 = NoCluster
    /\ docs = <<>>
    /\ num_patch = 0
    /\ limit = 0
    /\ ids_to_patch = {}
    /\ ids = <<>>
    /\ patches = <<>>
    /\ received = <<>>
    /\ patchChannel = <<>>
    /\ options = <<>>
    /\ producer = "off"
    /\ tickPending = FALSE
    /\ doneClosed = FALSE
    /\ signalChan = <<>>
    /\ sigDone = FALSE
    /\ callers = <<>>
    /\ sends = <<>>
    /\ inflight = 0
    /\ sendErrors = 0
    /\ tickLog = <<>>
    /\ result = NoResult
    /\ metrics = NoMetrics
    /\ submitted = {}

ProbeNext ==
    \/ GetLatestTimestampCall
    \/ getE2ELatency
    \/ ProbeTick

ProbeSpec == ProbeInit /\ [][ProbeNext]_vars

(***************************************************************************)
(* The Rockset wire calls SendDocument and SendPatch, one call after       *)
(* another, each with a batch of n items and any answer of the store.      *)
(***************************************************************************)
SendResponses ==
    [kind : {"transport", "status_readable", "status_unreadable", "ok"},
     ts : {<<>>}]

SendCalls ==
    [dest : {"rockset"}, op : {"SendDocument", "SendPatch"}, n : 1..MaxBatch,
     resp : SendResponses]

\* what both calls return: the transport error, a fmt.Errorf for a non-200
\* answer whose body could be read, and nil otherwise (a non-200 answer
\* whose body could not be read falls through to `return nil`)
SendResult(resp) ==
    IF resp.kind \in {"transport", "status_readable"}
    THEN Returned("err", ZeroTime)
    ELSE Returned("nil", ZeroTime)

\* Rockset.SendDocument: numEventIngested.Add(n); recordWritesErrored(n) on
\* a transport error and on a non-200 answer, recordWritesCompleted(n) on 200
RocksetSendDocument ==
    /\ Running /\ pc = "send" /\ wire.op = "SendDocument"
    /\ metrics' =
         IF wire.resp.kind = "ok"
         THEN [metrics EXCEPT !.eventIngested = @ + wire.n,
                              !.writesCompleted = @ + wire.n]
         ELSE [metrics EXCEPT !.eventIngested = @ + wire.n,
                              !.writesErrored = @ + wire.n]
    /\ result' = SendResult(wire.resp)
    /\ pc' = "send_ret"
    /\ UNCHANGED <<cfg, proc, i, docs_written, batches, genVars, patchVars, tickPending,
                   doneClosed, sigVars, callers, taskVars, streamVars, wire, submitted>>

\* Rockset.SendPatch: a transport error returns before any hook is called;
\* recordPatchesCompleted(n) on 200, recordPatchesErrored(n) on a non-200
\* answer
RocksetSendPatch ==
    /\ Running /\ pc = "send" /\ wire.op = "SendPatch"
    /\ metrics' =
         CASE wire.resp.kind = "transport" -> metrics
           [] wire.resp.kind = "ok"
                 -> [metrics EXCEPT !.patchesCompleted = @ + wire.n]
           [] OTHER
                 -> [metrics EXCEPT !.patchesErrored = @ + wire.n]
    /\ result' = SendResult(wire.resp)
    /\ pc' = "send_ret"
    /\ UNCHANGED <<cfg, proc, i, docs_written, batches, genVars, patchVars, tickPending,
                   doneClosed, sigVars, callers, taskVars, streamVars, wire, submitted>>

\* the next send task makes its call (batches counts the calls made)
SendStart ==
    /\ Running /\ pc = "send_ret"
    /\ batches < MaxSendCalls
    /\ batches' = batches + 1
    /\ wire' \in SendCalls
    /\ result' = NoResult
    /\ pc' = "send"
    /\ UNCHANGED <<cfg, proc, i, docs_written, genVars, patchVars, tickPending,
                   doneClosed, sigVars, callers, taskVars, streamVars, metrics, submitted>>

WireInit ==
    /\ wire \in SendCalls
    /\ cfg = DefaultConfig
    /\ pc = "send"
    /\ proc = "running"
    /\ i = 0
    /\ docs_written = 0
    /\ batches = 1
    /\ doc_id = 0
    /\ max_doc_id = 0
    /\ doc = NoId
    /\ Cluster1 = NoCluster
    /\ docs = <<>>
    /\ num_patch = 0
    /\ limit = 0
    /\ ids_to_patch = {}
    /\ ids = <<>>
    /\ patches = <<>>
    /\ received = <<>>
    /\ patchChannel = <<>>
    /\ options = <<>>
    /\ producer = "off"
    /\ tickPending = FALSE
    /\ doneClosed = FALSE
    /\ signalChan = <<>>
    /\ sigDone = FALSE
    /\ callers = <<>>
    /\ sends = <<>>
    /\ inflight = 0
    /\ sendErrors = 0
    /\ tickLog = <<>>
    /\ result = NoResult
    /\ metrics = NoMetrics
    /\ submitted = {}

WireNext ==
    \/ RocksetSendDocument
    \/ RocksetSendPatch
    \/ SendStart

WireSpec == WireInit /\ [][WireNext]_vars

(***************************************************************************)
(* Properties.                                                             *)
(***************************************************************************)
RECURSIVE DecimalValue(_)
DecimalValue(s) ==
    IF s = <<>> THEN 0 ELSE DecimalValue(SubSeq(s, 1, Len(s) - 1)) * 10 + s[Len(s)]

\* d is the id k written as 24 decimal digits
IsDocIdOf(d, k) ==
    /\ d.kind = "seq"
    /\ Len(d.text) = 24
    /\ \A q \in 1..Len(d.text) : d.text[q] \in 0..9
    /\ DecimalValue(d.text) = k

AddPhase == pc \in {"add_loop", "add_select", "add_unit", "add_gen"}

SequentialRun ==
    /\ cfg.destination = "rockset"
    /\ cfg.mode \in {"add", "add_then_patch"}
    /\ cfg.idMode = "sequential"

\* the number of documents generated before the batch held in docs
BatchBase == IF pc = "add_gen" THEN docs_written ELSE docs_written - cfg.batchSize

\* C1: with destination rockset, a non-mixed mode and sequential ids, the
\* k-th document generated since process start (k = 0, 1, ...) carries _id = k
\* as 24 zero-padded decimal digits: the p-th document of the batch that
\* follows n generated documents has id n + p - 1.
Thm_C1 ==
    (SequentialRun /\ AddPhase) =>
        \A p \in 1..Len(docs) : IsDocIdOf(docs[p], BatchBase + p - 1)

\* the third batch of two documents is complete: ids 4 and 5
Wit_C1 ==
    /\ SequentialRun /\ pc = "add_gen"
    /\ cfg.batchSize = 2 /\ batches = 2 /\ Len(docs) = 2

\* C2: concurrent GenerateDoc calls in sequential id mode never hand out the
\* same _id twice, and once all calls have returned every id below the
\* counter has been handed out.
CE_C2 ==
    pc = "conc" =>
        /\ \A a, b \in 1..Len(docs) : a # b => docs[a] # docs[b]
        /\ (\A c \in Callers : callers[c].pc = "idle") =>
               \A k \in 0..(doc_id - 1) : \E a \in 1..Len(docs) : docs[a] = SeqId(k)

SetUp == pc \notin {"start", "add_setup", "patch_setup"}

\* C3 as stated: once the id space is set up, doc_id >= max_doc_id.
CE_C3 == SetUp => doc_id >= max_doc_id

\* C3, amended: doc_id >= max_doc_id holds in add and add_then_patch runs,
\* where max_doc_id stays 0; a patch run keeps doc_id = 0 below the seeded
\* bound NUM_DOCS; a mixed run starts with doc_id = 0 below the seeded bound
\* MAX_DOCS and the bound never runs ahead of doc_id by more than MAX_DOCS.
Thm_C3 ==
    /\ cfg.mode \in {"add", "add_then_patch"} => max_doc_id = 0 /\ doc_id >= max_doc_id
    /\ (cfg.mode = "patch" /\ SetUp) =>
           doc_id = 0 /\ max_doc_id = cfg.numDocs /\ doc_id < max_doc_id
    /\ (cfg.mode = "mixed" /\ SetUp) =>
           /\ max_doc_id >= cfg.maxDocs
           /\ doc_id >= max_doc_id - cfg.maxDocs
           /\ (doc_id = 0 => doc_id < max_doc_id)

\* a mixed run has generated documents and doc_id is still below the bound
Wit_C3 == cfg.mode = "mixed" /\ SetUp /\ doc_id > 0 /\ doc_id < max_doc_id

\* C4: when the first patch batch of an add_then_patch run is assembled, the
\* add phase has reached its budget and the sampling bound equals the number
\* of documents written in the add phase.
CE_C4 ==
    (cfg.mode = "add_then_patch" /\ pc = "gp_sample" /\ batches = 1) =>
        /\ cfg.numDocs >= 0 /\ docs_written >= cfg.numDocs
        /\ limit = docs_written

\* C5: GenerateDoc in mixed mode with updatePercentage = 100 and a bound of 0
\* does not panic.
CE_C5 ==
    ~(/\ proc = "panic" /\ pc = "api"
      /\ cfg.mode = "mixed" /\ cfg.updatePercentage = 100 /\ max_doc_id = 0)

\* C6: a GeneratePatches(count) call made with a bound of 0 or with
\* count > bound fails with an error: it does not panic, it does not reach the
\* point where every id of the range is drawn and the sampling loop still
\* runs, and it does not return patches.
CE_C6 ==
    ((limit = 0 \/ cfg.batchSize > limit)
        /\ pc \in {"gp_sample", "gp_patch", "patch_send"}) =>
        /\ proc # "panic"
        /\ ~(pc = "gp_sample" /\ limit > 0 /\ ids_to_patch = 0..(limit - 1))
        /\ pc \notin {"gp_patch", "patch_send"}

BudgetRun ==
    /\ cfg.mode \in {"add", "mixed"}
    /\ cfg.numDocs > 0 /\ cfg.wps > 0 /\ cfg.batchSize > 0

\* C8: in add and mixed mode with NUM_DOCS = n > 0, WPS > 0 and
\* BATCH_SIZE > 0 the dispatch loop ends (ticks keep firing): main returns,
\* unless a signal or a failed generation exits the process first, and it
\* returns only at the first tick boundary where docs_written >= n, with
\* docs_written counting BATCH_SIZE for every batch dispatched; it waits for
\* a tick only while docs_written < n; with NUM_DOCS negative it never
\* returns.
Thm_C8 ==
    /\ []((BudgetRun /\ proc = "returned") =>
             /\ docs_written >= cfg.numDocs
             /\ docs_written - cfg.wps * cfg.batchSize < cfg.numDocs
             /\ batches * cfg.batchSize = docs_written)
    /\ []((BudgetRun /\ pc = "add_select") => docs_written < cfg.numDocs)
    /\ []((cfg.mode \in {"add", "mixed"} /\ cfg.numDocs < 0) => proc # "returned")
    /\ ((BudgetRun /\ pc = "add_loop") ~> (proc \in {"returned", "exit0", "exit1"}))

\* the loop ended by itself at a tick boundary past the budget, each tick
\* issuing several batches
Wit_C8 ==
    /\ BudgetRun /\ proc = "returned"
    /\ docs_written > cfg.numDocs /\ cfg.wps > 1

\* C9 as stated: in PATCH state the scheduler is terminal once the budget of
\* issued documents is exhausted; it does not wait for another tick then.
CE_C9 ==
    (proc = "running" /\ pc = "patch_select" /\ cfg.numDocs > 0) =>
        docs_written < cfg.numDocs

\* C9, amended: the patch loop has no budget: main never returns from a patch
\* or add_then_patch run, and batches keep being issued when docs_written
\* has reached NUM_DOCS; the run ends only by a signal or a panic.
Thm_C9 ==
    cfg.mode \in {"patch", "add_then_patch"} =>
        proc \in {"running", "exit0", "exit1", "panic"}

\* a patch batch is about to be sent with the budget already exhausted
Wit_C9 ==
    /\ cfg.mode = "patch" /\ proc = "running" /\ pc = "patch_send"
    /\ docs_written >= cfg.numDocs

\* C10: with NUM_DOCS = n >= 0 in add or add_then_patch mode the add phase
\* never issues more than n documents.
CE_C10 ==
    (cfg.mode \in {"add", "add_then_patch"} /\ cfg.numDocs >= 0 /\ AddPhase) =>
        docs_written <= cfg.numDocs

\* the send tasks started by the body of the t-th tick
TickSends(t) == {k \in 1..Len(sends) : sends[k].tick = t}

\* the body of the t-th tick has run to its end
TickDone(t) ==
    \/ t < Len(tickLog)
    \/ pc \in {"add_loop", "add_select", "patch_setup", "patch_select"}

\* C11: every tick of the add/mixed phase whose body has run to its end has
\* started exactly WPS SendDocument tasks, every such tick of the patch phase
\* exactly PPS SendPatch tasks, each on a batch of BATCH_SIZE items; PPS is
\* WPS when PPS is not set; every send task belongs to a tick taken from the
\* ticker, and there is one task per batch counted.
Thm_C11 ==
    /\ Len(sends) = batches
    /\ \A k \in 1..Len(sends) :
         /\ sends[k].tick \in 1..Len(tickLog)
         /\ sends[k].n = cfg.batchSize
         /\ sends[k].call = IF tickLog[sends[k].tick] = "add_unit"
                            THEN "SendDocument" ELSE "SendPatch"
    /\ \A t \in 1..Len(tickLog) :
         TickDone(t) =>
             Cardinality(TickSends(t)) =
                 IF tickLog[t] = "add_unit" THEN cfg.wps ELSE pps
    /\ cfg.envPPS = <<>> => pps = cfg.wps

\* a patch run without PPS has finished the body of a tick: WPS = 2 batches
\* of patches were handed to SendPatch
Wit_C11 ==
    /\ cfg.mode = "patch" /\ cfg.envPPS = <<>> /\ cfg.wps = 2 /\ cfg.batchSize > 0
    /\ pc = "patch_select" /\ Len(tickLog) = 1 /\ Len(sends) = 2

PatchPhase == pc \in {"patch_select", "patch_unit", "gp_sample", "gp_patch", "patch_send"}

\* C12: in MODE=patch with NUM_DOCS = n > 0, during the whole patch phase the
\* bound is n and the id counter keeps its initial value 0, and every patch
\* built (so every patch of a batch handed to SendPatch) has as _id the
\* 24-digit form of an integer of [0, n).
Thm_C12 ==
    (cfg.mode = "patch" /\ PatchPhase) =>
        /\ cfg.numDocs > 0
        /\ max_doc_id = cfg.numDocs
        /\ doc_id = 0
        /\ \A p \in 1..Len(patches) :
             \E k \in 0..(cfg.numDocs - 1) : IsDocIdOf(patches[p]._id, k)

\* the second batch of a patch run, of two patches, is about to be submitted
Wit_C12 ==
    /\ cfg.mode = "patch" /\ cfg.numDocs = 2
    /\ pc = "patch_send" /\ batches = 1 /\ Len(patches) = 2

\* genUniqueInRange has returned ids to GeneratePatches
Sampled == pc = "gp_patch"

\* C13: genUniqueInRange(limit, count) with 0 <= count <= limit and limit > 0
\* returns a list of exactly count integers, pairwise distinct, each in
\* [0, limit).
Thm_C13 ==
    (Sampled /\ 0 <= num_patch /\ num_patch <= limit /\ limit > 0) =>
        /\ Len(ids) = num_patch
        /\ \A a, b \in 1..Len(ids) : a # b => ids[a] # ids[b]
        /\ \A a \in 1..Len(ids) : ids[a] \in 0..(limit - 1)

\* genUniqueInRange(3, 2) has returned
Wit_C13 == Sampled /\ limit = 3 /\ num_patch = 2 /\ Len(ids) = 2

\* C14: the p-th patch GeneratePatches builds has as _id the 24-digit form
\* of the p-th id genUniqueInRange returned, and as patch exactly two
\* operations: the p-th mutation the call received from the stream (one of
\* the producer's options), then the {op: add, path: /_ts} operation; when
\* GeneratePatches(count) returns it returns count patches and has received
\* count mutations.
Thm_C14 ==
    (pc \in {"gp_patch", "patch_send"}) =>
        /\ Len(received) = Len(patches)
        /\ Len(patches) <= Len(ids)
        /\ \A p \in 1..Len(patches) :
             /\ IsDocIdOf(patches[p]._id, ids[p])
             /\ Len(patches[p].patch) = 2
             /\ patches[p].patch[1] = received[p]
             /\ received[p] \in Options(producer)
             /\ patches[p].patch[2] = [op |-> "add", path |-> "/_ts"]
        /\ pc = "patch_send" =>
               Len(patches) = num_patch /\ Len(received) = num_patch

\* GeneratePatches(2) has returned two patches with different mutations
Wit_C14 ==
    /\ pc = "patch_send" /\ num_patch = 2 /\ Len(patches) = 2
    /\ patches[1].patch[1] # patches[2].patch[1]

\* a step that is a GenerateDoc call of the package API (the spec of the
\* call is kept in cfg)
GenerateDocCalled ==
    /\ pc = "api"
    /\ doc_id' # doc_id \/ doc' # doc \/ proc' # proc

\* C15: a GenerateDoc call in mixed mode with updatePercentage = 0 (on a
\* destination that is given ids) returns a document whose _id is the
\* 24-digit form of the bound before the call, leaves the bound one greater
\* and does not panic, whatever bound was seeded and however many calls
\* came before.
Thm_C15 ==
    [][(/\ GenerateDocCalled
        /\ cfg'.destination = "rockset" /\ cfg'.mode = "mixed"
        /\ cfg'.updatePercentage = 0)
          => /\ IsDocIdOf(doc', max_doc_id)
             /\ max_doc_id' = max_doc_id + 1
             /\ proc' = "running"]_vars

\* a call with updatePercentage = 0 has returned the insert of id 3 and left
\* the bound at 4
Wit_C15 ==
    /\ pc = "api" /\ cfg.mode = "mixed" /\ cfg.updatePercentage = 0
    /\ cfg.destination = "rockset"
    /\ doc = SeqId(3) /\ max_doc_id = 4

\* C16 as stated: once the first signal has been handled, a second signal
\* delivered to the running process ends it with exit status 1: the process
\* does not end with status 0 while that signal waits in signalChan.
CE_C16 == (sigDone /\ signalChan # <<>>) => proc # "exit0"

\* C16, amended: once the first signal has been handled (done is set and
\* doneChan closed), the handler can take a waiting signal in every state of
\* the running process, whatever main is doing and whatever ticks or sends
\* are pending, and taking it ends the process with exit status 1, SIGTERM
\* or not; until it is taken, main can still end the process with status 0
\* at its select.
Thm_C16 ==
    /\ [][(sigDone /\ Len(signalChan') < Len(signalChan)) => proc' = "exit1"]_vars
    /\ []((Running /\ sigDone /\ signalChan # <<>>) => ENABLED signalHandler)
    /\ []((sigDone /\ proc = "exit0") => doneClosed /\ pc \in {"add_select", "patch_select"})

\* the handler has ended the process on a second signal in the middle of a
\* tick body, with a tick pending and send tasks started
Wit_C16 ==
    /\ sigDone /\ proc = "exit1" /\ pc = "add_unit"
    /\ tickPending /\ Len(sends) > 0

\* C17: the step in which a SendDocument or SendPatch call returns an error
\* changes nothing of the scheduler (its position, the process, the pending
\* tick), of docs_written or of doc_id and max_doc_id, and starts no send
\* task; there is always exactly one send task per batch issued, and with
\* failed sends every tick that has run its body has still started WPS
\* (add / mixed) or PPS (patch) tasks.
Thm_C17 ==
    /\ [][sendErrors' # sendErrors =>
             /\ pc' = pc /\ proc' = proc /\ i' = i
             /\ tickPending' = tickPending /\ doneClosed' = doneClosed
             /\ docs_written' = docs_written /\ batches' = batches
             /\ doc_id' = doc_id /\ max_doc_id' = max_doc_id
             /\ sends' = sends]_vars
    /\ [](Len(sends) = batches)
    /\ [](sendErrors > 0 =>
             \A t \in 1..Len(tickLog) :
                 TickDone(t) =>
                     Cardinality(TickSends(t)) =
                         IF tickLog[t] = "add_unit" THEN cfg.wps ELSE pps)

\* every send of the first two ticks of a patch run has failed and the
\* scheduler waits for the next tick
Wit_C17 ==
    /\ cfg.mode = "patch" /\ Running /\ pc = "patch_select"
    /\ Len(tickLog) = 2 /\ sendErrors = Len(sends) /\ sendErrors >= 2

\* C18: when a document generation fails, GenerateDocs returns no document
\* (the documents of the batch generated before the failure are not
\* returned), and main, given the error, can do nothing but end the process
\* with exit status 1: the batch is not handed to a send task, docs_written
\* is not raised, no further unit is started and no further tick is taken.
\* The same test follows GeneratePatches, which returns a nil error in
\* every case: the patch phase never ends with status 1 unless the signal
\* handler ends it.
Thm_C18 ==
    /\ [](pc = "add_err" => docs = <<>>)
    /\ []((Running /\ pc = "add_err") => ENABLED AddGenError)
    /\ [][pc = "add_err" =>
             /\ pc' = "add_err" /\ i' = i
             /\ sends' = sends /\ batches' = batches
             /\ docs_written' = docs_written /\ tickLog' = tickLog
             /\ (proc' # proc /\ signalChan' = signalChan) => proc' = "exit1"]_vars
    /\ []((PatchPhase /\ proc = "exit1") => sigDone)

\* the second batch of a tick of a sequential-id run has failed at its second
\* document: the first batch was handed to a send task, the failing one is
\* not, and the process has ended with status 1
Wit_C18 ==
    /\ SequentialRun /\ cfg.batchSize = 2
    /\ pc = "add_err" /\ proc = "exit1" /\ ~sigDone
    /\ doc_id = 3 /\ docs = <<>> /\ Len(sends) = 1 /\ docs_written = 2

\* C19: every configuration the program refuses is refused before the first
\* tick is processed: a process that has aborted for a configuration reason
\* (at the validation of lines 45-81 or at the destination test of the patch
\* phase) has taken no tick and has handed no batch to a send task.
CE_C19 ==
    (proc = "panic" /\ pc \in {"start", "patch_setup"}) =>
        /\ tickLog = <<>>
        /\ sends = <<>>
        /\ docs_written = 0

\* C20: with NumClusters = n > 0 and HotClusterPercentage = 100, the cluster
\* key of the document a GenerateDoc call returns is the hot key 0@gmail.com,
\* for every draw of rand.Intn(100) and of rand.Intn(n) and after any number
\* of calls (a call that panics at its id assignment returns no document).
Thm_C20 ==
    (/\ pc = "api" /\ proc = "running"
     /\ cfg.numClusters > 0 /\ cfg.hotClusterPercentage = 100)
        => /\ Cluster1 = ClusterKey(0)
           /\ Cluster1.local = <<0>> /\ Cluster1.domain = "gmail.com"

\* the fourth document of a sequence of calls has been generated with
\* several clusters to draw from and a hot percentage of 100, and carries
\* the hot key
Wit_C20 ==
    /\ pc = "api" /\ proc = "running"
    /\ cfg.numClusters = MaxClusters /\ MaxClusters >= 2
    /\ cfg.hotClusterPercentage = 100
    /\ cfg.idMode = "sequential" /\ cfg.mode = "add" /\ doc_id = 4
    /\ Cluster1 = ClusterKey(0)

\* the probe call has returned for a 200 answer carrying a timestamp
ProbeAnswered == pc = "probe_ret" /\ wire.resp.kind = "ok"

\* the call returned no error and the time whose Unix second is
\* floor(t / 10^6) and whose sub-second part is t mod 10^6 microseconds
ReturnsTimeOf(t) ==
    /\ result.ret = "nil"
    /\ result.time.unix = <<t[1], t[2]>>
    /\ result.time.nsec = t[3] * NanosPerMicro
    /\ UnixMicro(result.time) = t

MixedCall ==
    /\ cfg.mode = "mixed" /\ cfg.destination = "rockset"
    /\ pc = "add_gen" /\ Len(docs') = Len(docs) + 1

\* C22: in a mixed run seeded with MAX_DOCS = m > 0 (on a destination that
\* is given ids), every GenerateDoc call either returns an id below the
\* bound and leaves the bound unchanged (update), or returns the bound as id
\* and advances the bound by exactly one (insert); no call panics, every id
\* of the batch under construction is below the current bound, the bound
\* never decreases, and so the inserted ids are m, m+1, m+2, ... in order.
Thm_C22 ==
    /\ [][MixedCall =>
             /\ docs' = Append(docs, doc')
             /\ \/ /\ max_doc_id' = max_doc_id
                   /\ \E k \in 0..(max_doc_id - 1) : IsDocIdOf(doc', k)
                \/ /\ max_doc_id' = max_doc_id + 1
                   /\ IsDocIdOf(doc', max_doc_id)]_vars
    /\ []((cfg.mode = "mixed" /\ cfg.destination = "rockset") =>
             \A j \in 1..Len(docs) : DecimalValue(docs[j].text) < max_doc_id)
    /\ [][(cfg.mode = "mixed" /\ SetUp) => max_doc_id' >= max_doc_id]_vars
    /\ []((cfg.mode = "mixed" /\ SetUp) =>
             /\ max_doc_id >= cfg.maxDocs
             /\ proc # "panic")

\* a batch of a mixed run holds an insert of the id m followed by an update
\* of that same id, and the bound stands at m + 1
Wit_C22 ==
    /\ cfg.mode = "mixed" /\ cfg.destination = "rockset" /\ SetUp
    /\ cfg.maxDocs > 0 /\ max_doc_id = cfg.maxDocs + 1
    /\ docs = <<SeqId(cfg.maxDocs), SeqId(cfg.maxDocs)>>

\* C23: the scheduler never waits for a destination call: whatever the
\* number of sends in flight, a generated batch can be handed to a new send
\* task at once and a pending tick can be taken at once; a dispatch adds one
\* send in flight, and only the return of a send takes one away, so while
\* the destination does not answer every batch issued stays in flight.
Thm_C23 ==
    /\ []((Running /\ pc = "add_gen" /\ Len(docs) >= cfg.batchSize)
              => ENABLED AddDispatch)
    /\ []((Running /\ pc = "patch_send") => ENABLED PatchDispatch)
    /\ []((Running /\ pc = "add_select" /\ tickPending) => ENABLED AddSelectTick)
    /\ []((Running /\ pc = "patch_select" /\ tickPending) => ENABLED PatchSelectTick)
    /\ [][batches' # batches =>
             batches' = batches + 1 /\ inflight' = inflight + 1]_vars
    /\ [][inflight' < inflight =>
             /\ inflight' = inflight - 1
             /\ pc' = pc /\ sends' = sends /\ batches' = batches]_vars
    /\ [](inflight <= batches)

\* the destination has answered none of the sends of an unlimited add run:
\* the scheduler has gone through several ticks and stands at its select
\* with as many sends in flight as batches issued, more than one tick's worth
Wit_C23 ==
    /\ cfg.mode = "add" /\ cfg.numDocs < 0 /\ Running /\ pc = "add_select"
    /\ Len(tickLog) >= 2
    /\ inflight = batches /\ inflight >= MaxBatches /\ inflight > cfg.wps

\* the templates of a pass of the running producer, and their number
Catalog == OptionsOf(producer, MaxPass)
PassLen == Cardinality(Catalog)

\* the mutations emitted so far, in emission order: those taken by the
\* consumer, then those still in the channel
Emitted == received \o patchChannel

\* the producer shuffles its next pass into the order o
ShuffleTo(o) == StreamShuffle /\ options' = o

\* C24: the stream emits its catalog in passes: for every k >= 0 the
\* mutations numbered PassLen * k .. PassLen * k + PassLen - 1 in emission
\* order are the templates of the catalog, each exactly once (no template
\* twice in a pass under way, all of them in a pass completed), for the
\* replace style and for the add style; and whatever was emitted before,
\* every order of the catalog can be chosen for the next pass.
Thm_C24 ==
    /\ [](\A k \in 0..(Len(Emitted) \div PassLen) :
             LET lo == PassLen * k + 1
                 hi == Min(PassLen * (k + 1), Len(Emitted))
             IN  /\ \A a, b \in lo..hi : a # b => Emitted[a] # Emitted[b]
                 /\ \A a \in lo..hi : Emitted[a] \in Catalog
                 /\ hi = PassLen * (k + 1)
                       => {Emitted[a] : a \in lo..hi} = Catalog)
    /\ []((Running /\ options = <<>>) =>
             \A o \in RangeOrders(Catalog) : ENABLED ShuffleTo(o))

\* the replace stream has emitted two whole passes, the second in another
\* order than the first
Wit_C24 ==
    /\ producer = "replace" /\ PassLen = MaxPass /\ MaxPass >= 3
    /\ Len(received) = 2 * PassLen
    /\ SubSeq(received, 1, PassLen) # SubSeq(received, PassLen + 1, 2 * PassLen)
    /\ received[1] = received[2 * PassLen]

\* the mutations produced and not yet taken by a consumer: those in the
\* channel and those of the current pass not yet sent
Unconsumed == Len(patchChannel) + Len(options)

\* a GeneratePatches call is waiting on the stream
ConsumerWaiting == pc = "gp_patch" /\ Len(patches) < Len(ids)

\* C25 as stated: a produced mutation that no consumer has taken exists only
\* while a GeneratePatches call is waiting on the stream.
CE_C25 == Unconsumed > 0 => ConsumerWaiting

\* C25: the producer runs ahead of its consumers, but by a bounded amount:
\* the channel never holds more than its capacity of one mutation, the
\* producer cannot send while the channel is full, it builds a pass only
\* when the pass before has been sent entirely, and the mutations produced
\* and not yet consumed never exceed one pass plus the channel's capacity.
Thm_C25 ==
    /\ [](Len(patchChannel) <= PatchChanCap)
    /\ [](Unconsumed <= Cardinality(Options(producer)) + PatchChanCap)
    /\ [](Len(patchChannel) >= PatchChanCap => ~ENABLED ProducerSend)
    /\ [][Len(options') > Len(options) => options = <<>>]_vars
    /\ [](producer = "off" => Unconsumed = 0)

\* the scheduler waits for a tick, no GeneratePatches call is under way, and
\* the producer has filled the channel and holds a whole new pass
Wit_C25 ==
    /\ Running /\ pc = "patch_select" /\ ~ConsumerWaiting
    /\ Len(patchChannel) = PatchChanCap
    /\ Len(options) = Cardinality(Options(producer))
    /\ Unconsumed > PatchChanCap

\* a GeneratePatches(count) call with 0 < count <= Bound() is under way
ValidPatchCall ==
    /\ Running /\ pc \in {"gp_sample", "gp_patch"}
    /\ 0 < num_patch /\ num_patch <= limit

\* C26: with the producer running, every GeneratePatches(count) call with
\* 0 < count <= Bound() returns in the end, its patches built, whatever
\* calls came before; while it waits for a mutation the producer can always
\* take a step (the stream does not run dry), and the call does not panic.
Thm_C26 ==
    /\ (ValidPatchCall ~> (pc = "patch_send" /\ Len(patches) = num_patch))
    /\ []((ValidPatchCall /\ pc = "gp_patch" /\ Len(patches) < Len(ids)
             /\ patchChannel = <<>>)
              => (ENABLED ProducerSend \/ ENABLED ProducerShuffle))
    /\ [][ValidPatchCall => proc' = "running"]_vars

\* a call asking for as many patches as the bound allows (the case in which
\* the last id is the hardest to draw) has returned its patches
Wit_C26 ==
    /\ Running /\ pc = "patch_send"
    /\ num_patch = limit /\ limit >= 2 /\ Len(patches) = num_patch
    /\ producer = "replace"

\* a step in which a Rockset SendDocument or SendPatch call is made and
\* returns
SendCallStep == pc = "send" /\ pc' = "send_ret"

\* the hooks of the call's kind: completed and errored
Completed(m) == IF wire.op = "SendDocument" THEN m.writesCompleted ELSE m.patchesCompleted
Errored(m) == IF wire.op = "SendDocument" THEN m.writesErrored ELSE m.patchesErrored

\* C27: every Rockset SendDocument and SendPatch call records exactly one
\* outcome with n the number of items of the batch (completed on HTTP 200,
\* errored on a transport error or a non-200 answer), leaves the hooks of
\* the other kind alone, and returns an error unless the answer was 200.
CE_C27 ==
    [][SendCallStep =>
          /\ IF wire.resp.kind = "ok"
             THEN /\ Completed(metrics') = Completed(metrics) + wire.n
                  /\ Errored(metrics') = Errored(metrics)
                  /\ result'.ret = "nil"
             ELSE /\ Errored(metrics') = Errored(metrics) + wire.n
                  /\ Completed(metrics') = Completed(metrics)
                  /\ result'.ret = "err"
          /\ wire.op = "SendDocument" =>
                /\ metrics'.patchesCompleted = metrics.patchesCompleted
                /\ metrics'.patchesErrored = metrics.patchesErrored
          /\ wire.op = "SendPatch" =>
                /\ metrics'.writesCompleted = metrics.writesCompleted
                /\ metrics'.writesErrored = metrics.writesErrored]_vars

\* C28: a latency sample is recorded only when the probe obtained a
\* timestamp: whenever the store's answer is not a 200 answer carrying a
\* timestamp, GetLatestTimestamp returns an error (it neither panics nor
\* returns a nil error) and getE2ELatency records nothing.
CE_C28 ==
    /\ []((pc = "probe_ret" /\ wire.resp.kind # "ok") => result.ret = "err")
    /\ [][(pc = "probe_ret" /\ wire.resp.kind # "ok") => metrics' = metrics]_vars

HandlerStep == signalChan # <<>> /\ signalChan' = Tail(signalChan)

\* C30: for every sequence of signals, doneChan is closed at most once: only
\* the handler closes it, and only when it takes its first signal and that
\* signal is not SIGTERM; a first SIGTERM ends the process with status 0 and
\* leaves doneChan open; every signal the handler takes after it has closed
\* doneChan ends the process with status 1 and does not close again; once
\* closed, doneChan stays closed.
Thm_C30 ==
    /\ [][HandlerStep =>
             IF sigDone
             THEN proc' = "exit1" /\ doneClosed' = doneClosed /\ sigDone'
             ELSE IF Head(signalChan) = "SIGTERM"
             THEN proc' = "exit0" /\ ~doneClosed /\ ~doneClosed' /\ ~sigDone'
             ELSE proc' = proc /\ ~doneClosed /\ doneClosed' /\ sigDone']_vars
    /\ [][doneClosed' # doneClosed => (HandlerStep /\ ~sigDone /\ doneClosed')]_vars
    /\ [](doneClosed <=> sigDone)

\* in a patch run the handler has closed doneChan on a first signal and has
\* ended the process on a later one, doneChan closed once
Wit_C30 ==
    /\ cfg.mode = "patch" /\ pc \in {"patch_select", "patch_unit", "gp_sample"}
    /\ doneClosed /\ sigDone /\ proc = "exit1" /\ signalChan = <<>>

====
